---- MODULE Spec2Model ----
(***************************************************************************)
(* downcast_trait: sidecasting a `dyn DowncastTrait` handle to another     *)
(* trait the concrete type lists in downcast_trait_impl_convert_to!.       *)
(*                                                                         *)
(* A trait-object reference is a fat pointer (data pointer, vtable         *)
(* pointer) with a static type `dyn T` and a mutability.  The model keeps  *)
(* all four: [ty, data, vtable, mut].  The vtable of `self as &dyn C`      *)
(* inside `impl DowncastTrait for I` is <<I, C>>.  mem::transmute keeps    *)
(* data and vtable verbatim and only changes the static type.              *)
(*                                                                         *)
(* Two programs are modelled:                                              *)
(*   Spec        the impl blocks are expanded with arbitrary capability    *)
(*               lists, objects are constructed, and every query's result  *)
(*               is observed at once (recorded in `last`) and dropped;     *)
(*   SpecBorrow  the impl blocks of the source (the unit test and the doc  *)
(*               example), with the views the client keeps alive, under    *)
(*               the borrow rules the macro signatures impose.             *)
(***************************************************************************)
EXTENDS Integers, Sequences, FiniteSets

\* ---------------------------------------------------------------- bounds
MaxList == 2
MaxVal == 1
MaxViews == 2

\* ------------------------------------------------------- the type universe
\* The traits of the source: DowncastTrait, the doc example's Widget and
\* Container, the unit test's Downcasted and Downcasted2.
Capabilities == {"DowncastTrait", "Widget", "Container", "Downcasted", "Downcasted2"}

\* The structs of the source that implement DowncastTrait.
Implementors == {"Downcastable", "Window"}

\* trait Widget: DowncastTrait {}   trait Container: Widget { .. }
Supertraits(C) ==
    CASE C = "Widget" -> {"DowncastTrait"}
      [] C = "Container" -> {"Widget", "DowncastTrait"}
      [] OTHER -> {}

\* The traits each struct has an impl for.
Implements(I) ==
    CASE I = "Downcastable" -> {"Downcasted", "Downcasted2", "DowncastTrait"}
      [] I = "Window" -> {"Widget", "Container", "DowncastTrait"}

\* The objects of the programs: `tst` of the unit test, a Window of the
\* doc example.  An object's address is its name.
Objects == {"tst", "win"}

TypeOfObj(o) == IF o = "tst" THEN "Downcastable" ELSE "Window"

\* TypeId::of::<dyn C>(): an opaque token, equal only for the same type.
TypeId_of(C) == <<"TypeId", "dyn", C>>

None == <<>>
Some(x) == <<x>>

\* The capability lists a macro invocation can be given, up to MaxList names.
Lists == UNION {[1..n -> Capabilities] : n \in 0..MaxList}

Range(s) == {s[i] : i \in DOMAIN s}

VARIABLES
    emitted,    \* the implementors whose impl DowncastTrait block compiled
    registry,   \* registry[I]: the capability list of I's macro invocation
    diag,       \* diag[I]: the diagnostic the compiler gave for I's block
    objects,    \* the objects constructed so far
    val,        \* val[o]: the state of object o (Downcastable::val)
    last,       \* the last query and what it returned
    views,      \* views[i]: a reference the client holds, or <<>>
    wrote       \* wrote[o]: the value last stored through a &mut view of o

vars == <<emitted, registry, diag, objects, val, last, views, wrote>>

\* ------------------------------------------------------------ references
\* `self as &(dyn C)` / `self as &mut (dyn C)` in an impl for I: the unsized
\* coercion builds the fat pointer (self, vtable of C for I).
AsDyn(I, self, C, m) == [ty |-> C, data |-> self, vtable |-> <<I, C>>, mut |-> m]

\* mem::transmute::<&(dyn A), &(dyn B)>: both pointer fields are kept, only
\* the static type changes.
Transmute(h, B) == [h EXCEPT !.ty = B]

\* The body of a trait method as the source implements it, on object state v.
\* get_number: val + 123 for Downcasted, val + 456 for Downcasted2 (u32; the
\* model's values stay far below 2^32).  The other traits' methods are
\* observed by the object state they run on.
Method(I, C, v) ==
    [fn |-> <<I, C>>,
     out |-> CASE I = "Downcastable" /\ C = "Downcasted" -> v + 123
               [] I = "Downcastable" /\ C = "Downcasted2" -> v + 456
               [] OTHER -> v]

\* Every result a method of the object's state space can give.
AnyResult ==
    {Method(I, C, v) : I \in Implementors, C \in Capabilities, v \in 0..(MaxVal + 1)}

\* Calling the method of `dyn h.ty` through reference h: dynamic dispatch
\* through h.vtable on the object at h.data.  Through the vtable of another
\* trait the call is undefined behaviour: any result.
MethodCallOn(h, store) ==
    IF h.vtable[2] = h.ty
    THEN {Method(h.vtable[1], h.ty, store[h.data])}
    ELSE AnyResult

MethodCall(h) == MethodCallOn(h, val)

\* ------------------------------------------- downcast_trait_impl_convert_to
\* The macro's only rule is ($(dyn $type:path),+): one or more names.
MacroMatchesStar(list) == Len(list) >= 0

MacroMatches(list) == Len(list) >= 1

\* A compiler that warned about a repeated name.
DiagnosticDup(I, list) ==
    IF ~MacroMatches(list) THEN "no_rules_expected"
    ELSE IF ~(Range(list) \subseteq Implements(I)) THEN "E0277"
    ELSE IF \E i, j \in DOMAIN list : i < j /\ list[i] = list[j] THEN "duplicate"
    ELSE "none"

\* What the compiler says of `impl DowncastTrait for I { macro!(list) }`:
\* no rule matches an empty list; `self as &(dyn C)` needs I: C (E0277);
\* the else-if chain itself compiles whatever the names are.
Diagnostic(I, list) ==
    IF ~MacroMatches(list) THEN "no_rules_expected"
    ELSE IF ~(Range(list) \subseteq Implements(I)) THEN "E0277"
    ELSE "none"

Errors == {"no_rules_expected", "E0277"}

\* A chain whose every branch casts self to the first name of the list.
RECURSIVE convert_to_trait_chain_first(_, _, _, _, _)
convert_to_trait_chain_first(list, i, I, self, trait_id) ==
    IF i > Len(list)
    THEN [ret |-> None, tests |-> Len(list), entry |-> 0]
    ELSE IF trait_id = TypeId_of(list[i])
    THEN [ret |-> Some(Transmute(AsDyn(I, self, list[1], FALSE), "Any")),
          tests |-> i, entry |-> i]
    ELSE convert_to_trait_chain_first(list, i + 1, I, self, trait_id)

\* A chain whose final else returns a view instead of None.
RECURSIVE convert_to_trait_chain_nomiss(_, _, _, _, _)
convert_to_trait_chain_nomiss(list, i, I, self, trait_id) ==
    IF i > Len(list)
    THEN [ret |-> Some(Transmute(AsDyn(I, self, list[Len(list)], FALSE), "Any")),
          tests |-> Len(list), entry |-> 0]
    ELSE IF trait_id = TypeId_of(list[i])
    THEN [ret |-> Some(Transmute(AsDyn(I, self, list[i], FALSE), "Any")),
          tests |-> i, entry |-> i]
    ELSE convert_to_trait_chain_nomiss(list, i + 1, I, self, trait_id)

\* A chain whose branch for one name casts self to the name listed after it.
RECURSIVE convert_to_trait_chain_shifted(_, _, _, _, _)
convert_to_trait_chain_shifted(list, i, I, self, trait_id) ==
    IF i > Len(list)
    THEN [ret |-> None, tests |-> Len(list), entry |-> 0]
    ELSE IF trait_id = TypeId_of(list[i])
    THEN [ret |-> Some(Transmute(AsDyn(I, self, list[(i % Len(list)) + 1], FALSE), "Any")),
          tests |-> i, entry |-> i]
    ELSE convert_to_trait_chain_shifted(list, i + 1, I, self, trait_id)

\* A chain that tests the names from the last to the first.
RECURSIVE convert_to_trait_chain_reversed(_, _, _, _, _)
convert_to_trait_chain_reversed(list, i, I, self, trait_id) ==
    IF i > Len(list)
    THEN [ret |-> None, tests |-> Len(list), entry |-> 0]
    ELSE IF trait_id = TypeId_of(list[Len(list) + 1 - i])
    THEN [ret |-> Some(Transmute(AsDyn(I, self, list[Len(list) + 1 - i], FALSE), "Any")),
          tests |-> i, entry |-> Len(list) + 1 - i]
    ELSE convert_to_trait_chain_reversed(list, i + 1, I, self, trait_id)

\* fn convert_to_trait(&self, trait_id) as the macro emits it for `list`:
\* `if false {None}`, then one `else if trait_id == TypeId::of::<dyn C>()`
\* per name in textual order, then `else {None}`.  i is the next name to
\* test.  ret is the value returned; tests counts the comparisons made and
\* entry is the position of the branch taken (0: the final else).
RECURSIVE convert_to_trait_chain(_, _, _, _, _)
convert_to_trait_chain(list, i, I, self, trait_id) ==
    IF i > Len(list)
    THEN [ret |-> None, tests |-> Len(list), entry |-> 0]
    ELSE IF trait_id = TypeId_of(list[i])
    THEN [ret |-> Some(Transmute(AsDyn(I, self, list[i], FALSE), "Any")),
          tests |-> i, entry |-> i]
    ELSE convert_to_trait_chain(list, i + 1, I, self, trait_id)

\* A mutable chain that casts a reference to other storage than self.
RECURSIVE convert_to_trait_mut_chain_copy(_, _, _, _, _)
convert_to_trait_mut_chain_copy(list, i, I, self, trait_id) ==
    IF i > Len(list)
    THEN [ret |-> None, tests |-> Len(list), entry |-> 0]
    ELSE IF trait_id = TypeId_of(list[i])
    THEN [ret |-> Some(Transmute(
                    AsDyn(I, CHOOSE a \in Objects : a # self, list[i], TRUE), "Any")),
          tests |-> i, entry |-> i]
    ELSE convert_to_trait_mut_chain_copy(list, i + 1, I, self, trait_id)

\* A mutable chain that lost the branch of the first name.
RECURSIVE convert_to_trait_mut_chain_skip(_, _, _, _, _)
convert_to_trait_mut_chain_skip(list, i, I, self, trait_id) ==
    IF i > Len(list)
    THEN [ret |-> None, tests |-> Len(list), entry |-> 0]
    ELSE IF i > 1 /\ trait_id = TypeId_of(list[i])
    THEN [ret |-> Some(Transmute(AsDyn(I, self, list[i], TRUE), "Any")),
          tests |-> i, entry |-> i]
    ELSE convert_to_trait_mut_chain_skip(list, i + 1, I, self, trait_id)

\* fn convert_to_trait_mut(&mut self, trait_id): the same chain over
\* `self as &mut (dyn C)`.
RECURSIVE convert_to_trait_mut_chain(_, _, _, _, _)
convert_to_trait_mut_chain(list, i, I, self, trait_id) ==
    IF i > Len(list)
    THEN [ret |-> None, tests |-> Len(list), entry |-> 0]
    ELSE IF trait_id = TypeId_of(list[i])
    THEN [ret |-> Some(Transmute(AsDyn(I, self, list[i], TRUE), "Any")),
          tests |-> i, entry |-> i]
    ELSE convert_to_trait_mut_chain(list, i + 1, I, self, trait_id)

\* I's convert_to_trait / convert_to_trait_mut: the chain over I's list.
convert_to_trait(I, self, trait_id) ==
    convert_to_trait_chain(registry[I], 1, I, self, trait_id)

convert_to_trait_mut(I, self, trait_id) ==
    convert_to_trait_mut_chain(registry[I], 1, I, self, trait_id)

\* fn to_downcast_trait(&self) -> &dyn DowncastTrait { self }
to_downcast_trait(I, self) == AsDyn(I, self, "DowncastTrait", FALSE)

\* fn to_downcast_trait_mut(&mut self) -> &mut dyn DowncastTrait { self }
to_downcast_trait_mut(I, self) == AsDyn(I, self, "DowncastTrait", TRUE)

\* ------------------------------------------------------- the query macros
\* downcast_trait!(dyn C, src): src.convert_to_trait(TypeId::of::<dyn C>())
\* is dispatched through src's vtable to the implementor's chain; the
\* carrier is transmuted to &(dyn C).
downcast_trait(C, src) ==
    LET r == convert_to_trait(src.vtable[1], src.data, TypeId_of(C))
    IN [r EXCEPT !.ret = IF r.ret = None THEN None ELSE Some(Transmute(r.ret[1], C))]

\* downcast_trait_mut!(dyn C, src).
downcast_trait_mut(C, src) ==
    LET r == convert_to_trait_mut(src.vtable[1], src.data, TypeId_of(C))
    IN [r EXCEPT !.ret = IF r.ret = None THEN None ELSE Some(Transmute(r.ret[1], C))]

\* ---------------------------------------------------------------- Spec
\* `before` is the state of the queried object when the query started.
NoQuery == [op |-> "none", obj |-> "tst", cap |-> "DowncastTrait",
            ret |-> None, tests |-> 0, entry |-> 0, before |-> 0]

NoViews == [i \in 1..MaxViews |-> <<>>]

NoWrites == [o \in Objects |-> <<>>]

Init ==
    /\ emitted = {}
    /\ registry = [I \in Implementors |-> <<>>]
    /\ diag = [I \in Implementors |-> "pending"]
    /\ objects = {}
    /\ val = [o \in Objects |-> 0]
    /\ last = NoQuery
    /\ views = NoViews
    /\ wrote = NoWrites

\* impl DowncastTrait for I { downcast_trait_impl_convert_to!(list); } is
\* compiled: on an error nothing is emitted.
downcast_trait_impl_convert_to(I, list) ==
    /\ diag[I] = "pending"
    /\ diag' = [diag EXCEPT ![I] = Diagnostic(I, list)]
    /\ IF Diagnostic(I, list) \in Errors
       THEN UNCHANGED <<emitted, registry>>
       ELSE /\ emitted' = emitted \cup {I}
            /\ registry' = [registry EXCEPT ![I] = list]
    /\ UNCHANGED <<objects, val, last, views, wrote>>

\* let mut tst = Downcastable { val: v };
Construct(o, v) ==
    /\ TypeOfObj(o) \in emitted
    /\ o \notin objects
    /\ objects' = objects \cup {o}
    /\ val' = [val EXCEPT ![o] = v]
    /\ UNCHANGED <<emitted, registry, diag, last, views, wrote>>

\* downcast_trait!(dyn C, o.to_downcast_trait()), the result used at once.
DowncastTraitQuery(o, C) ==
    /\ o \in objects
    /\ LET r == downcast_trait(C, to_downcast_trait(TypeOfObj(o), o))
       IN last' = [op |-> "downcast_trait", obj |-> o, cap |-> C,
                   ret |-> r.ret, tests |-> r.tests, entry |-> r.entry,
                   before |-> val[o]]
    /\ UNCHANGED <<emitted, registry, diag, objects, val, views, wrote>>

\* A lookup that writes to self.
DowncastTraitMutQueryWriting(o, C) ==
    /\ o \in objects
    /\ LET r == downcast_trait_mut(C, to_downcast_trait_mut(TypeOfObj(o), o))
       IN last' = [op |-> "downcast_trait_mut", obj |-> o, cap |-> C,
                   ret |-> r.ret, tests |-> r.tests, entry |-> r.entry,
                   before |-> val[o]]
    /\ val' = [val EXCEPT ![o] = (val[o] + 1) % (MaxVal + 1)]
    /\ UNCHANGED <<emitted, registry, diag, objects, views, wrote>>

\* downcast_trait_mut!(dyn C, o.to_downcast_trait_mut()), used at once.
DowncastTraitMutQuery(o, C) ==
    /\ o \in objects
    /\ LET r == downcast_trait_mut(C, to_downcast_trait_mut(TypeOfObj(o), o))
       IN last' = [op |-> "downcast_trait_mut", obj |-> o, cap |-> C,
                   ret |-> r.ret, tests |-> r.tests, entry |-> r.entry,
                   before |-> val[o]]
    /\ UNCHANGED <<emitted, registry, diag, objects, val, views, wrote>>

Next ==
    \/ \E I \in Implementors, list \in Lists : downcast_trait_impl_convert_to(I, list)
    \/ \E o \in Objects, v \in 0..MaxVal : Construct(o, v)
    \/ \E o \in Objects, C \in Capabilities : DowncastTraitQuery(o, C)
    \/ \E o \in Objects, C \in Capabilities : DowncastTraitMutQuery(o, C)

Spec == Init /\ [][Next]_vars

\* ----------------------------------------------------------- SpecBorrow
\* The capability lists of the source: the unit test's
\* downcast_trait_impl_convert_to!(dyn Downcasted, dyn Downcasted2) and the
\* doc example's downcast_trait_impl_convert_to!(dyn Container).
SourceRegistry ==
    [I \in Implementors |->
        IF I = "Downcastable" THEN <<"Downcasted", "Downcasted2">> ELSE <<"Container">>]

\* A view the client holds is [via, obj, parent, h]: the operation that
\* returned it, the object it borrows, the view it was reborrowed from
\* (0: the object's owner) and the reference itself.
Live(i) == views[i] # <<>>

View(i) == views[i][1]

LiveViews == {i \in 1..MaxViews : Live(i)}

\* The live views reborrowed from p (from the owner of o when p = 0).
Children(o, p) == {i \in LiveViews : View(i).obj = o /\ View(i).parent = p}

\* DowncastTrait's methods can be called on `dyn T` when T is DowncastTrait
\* or has it as a supertrait.
HasBase(T) == T = "DowncastTrait" \/ "DowncastTrait" \in Supertraits(T)

\* p can be the receiver of a DowncastTrait method on object o.
Receiver(o, p) ==
    \/ p = 0
    \/ p \in LiveViews /\ View(p).obj = o /\ HasBase(View(p).h.ty)

\* The implementor whose method the call on receiver p reaches (through the
\* view's vtable), and the self pointer it is given.
RecvImpl(o, p) == IF p = 0 THEN TypeOfObj(o) ELSE View(p).h.vtable[1]

RecvSelf(o, p) == IF p = 0 THEN o ELSE View(p).h.data

\* `&self` / `src: &dyn DowncastTrait`: a shared reborrow of p, allowed
\* while nothing reborrowed from p is mutable.
CanBorrowShared(o, p) ==
    /\ Receiver(o, p)
    /\ \A c \in Children(o, p) : ~View(c).h.mut

\* A mutable query that takes its source by shared reference.
CanBorrowMutAliased(o, p) ==
    /\ Receiver(o, p)
    /\ \A c \in Children(o, p) : ~View(c).h.mut

\* `&mut self` / `src: &mut dyn DowncastTrait`: an exclusive reborrow of p,
\* allowed when p is the owner or a mutable view and nothing reborrowed from
\* p is live.
CanBorrowMut(o, p) ==
    /\ Receiver(o, p)
    /\ p # 0 => View(p).h.mut
    /\ Children(o, p) = {}

HasFree == \E i \in 1..MaxViews : ~Live(i)

FreeSlot == CHOOSE i \in 1..MaxViews : ~Live(i) /\ \A j \in 1..(i - 1) : Live(j)

InitBorrow ==
    /\ emitted = Implementors
    /\ registry = SourceRegistry
    /\ diag = [I \in Implementors |-> "none"]
    /\ objects = Objects
    /\ val \in [Objects -> 0..MaxVal]
    /\ last = NoQuery
    /\ views = NoViews
    /\ wrote = NoWrites

Hold(via, o, p, h) ==
    views' = [views EXCEPT ![FreeSlot] = <<[via |-> via, obj |-> o, parent |-> p, h |-> h]>>]

\* let b: &dyn DowncastTrait = p.to_downcast_trait();
ToDowncastTrait(o, p) ==
    /\ CanBorrowShared(o, p)
    /\ HasFree
    /\ Hold("to_downcast_trait", o, p, to_downcast_trait(RecvImpl(o, p), RecvSelf(o, p)))
    /\ UNCHANGED <<emitted, registry, diag, objects, val, last, wrote>>

\* let ts: &mut dyn DowncastTrait = p.to_downcast_trait_mut();
ToDowncastTraitMut(o, p) ==
    /\ CanBorrowMut(o, p)
    /\ HasFree
    /\ Hold("to_downcast_trait_mut", o, p,
            to_downcast_trait_mut(RecvImpl(o, p), RecvSelf(o, p)))
    /\ UNCHANGED <<emitted, registry, diag, objects, val, last, wrote>>

\* let v = downcast_trait!(dyn C, p.to_downcast_trait()); a Some is held.
DowncastTraitHeld(o, p, C) ==
    /\ CanBorrowShared(o, p)
    /\ HasFree
    /\ LET r == downcast_trait(C, to_downcast_trait(RecvImpl(o, p), RecvSelf(o, p)))
       IN IF r.ret = None
          THEN UNCHANGED views
          ELSE Hold("downcast_trait", o, p, r.ret[1])
    /\ UNCHANGED <<emitted, registry, diag, objects, val, last, wrote>>

\* let v = downcast_trait_mut!(dyn C, p.to_downcast_trait_mut());
DowncastTraitMutHeld(o, p, C) ==
    /\ CanBorrowMut(o, p)
    /\ HasFree
    /\ LET r == downcast_trait_mut(C, to_downcast_trait_mut(RecvImpl(o, p), RecvSelf(o, p)))
       IN IF r.ret = None
          THEN UNCHANGED views
          ELSE Hold("downcast_trait_mut", o, p, r.ret[1])
    /\ UNCHANGED <<emitted, registry, diag, objects, val, last, wrote>>

\* The view's last use is over: its borrow ends.  A borrow lasts as long as
\* anything reborrowed from it.
Release(i) ==
    /\ Live(i)
    /\ Children(View(i).obj, i) = {}
    /\ views' = [views EXCEPT ![i] = <<>>]
    /\ UNCHANGED <<emitted, registry, diag, objects, val, last, wrote>>

\* A `&mut self` method of the capability, called on a view the mutable
\* query returned, stores v in the object behind the view's data pointer.
WriteThrough(i, v) ==
    /\ Live(i)
    /\ View(i).via = "downcast_trait_mut"
    /\ View(i).h.mut
    /\ Children(View(i).obj, i) = {}
    /\ val' = [val EXCEPT ![View(i).h.data] = v]
    /\ wrote' = [wrote EXCEPT ![View(i).obj] = <<v>>]
    /\ UNCHANGED <<emitted, registry, diag, objects, last, views>>

NextBorrow ==
    \/ \E o \in Objects, p \in 0..MaxViews : ToDowncastTrait(o, p)
    \/ \E o \in Objects, p \in 0..MaxViews : ToDowncastTraitMut(o, p)
    \/ \E o \in Objects, p \in 0..MaxViews, C \in Capabilities : DowncastTraitHeld(o, p, C)
    \/ \E o \in Objects, p \in 0..MaxViews, C \in Capabilities : DowncastTraitMutHeld(o, p, C)
    \/ \E i \in 1..MaxViews : Release(i)
    \/ \E i \in 1..MaxViews, v \in 0..MaxVal : WriteThrough(i, v)

SpecBorrow == InitBorrow /\ [][NextBorrow]_vars

\* ------------------------------------------------------------ properties
Listed(I) == Range(registry[I])

Queried == last.op \in {"downcast_trait", "downcast_trait_mut"}

LastImpl == TypeOfObj(last.obj)

\* C1: a read-only query for a capability the implementor lists returns
\* Some(v), and a method of that capability called on v gives exactly what
\* the implementor's own method of that capability gives on the object.
SoundHit ==
    (last.op = "downcast_trait" /\ last.cap \in Listed(LastImpl))
        => /\ last.ret # None
           /\ MethodCall(last.ret[1]) = {Method(LastImpl, last.cap, val[last.obj])}

SoundHitWitness ==
    /\ emitted = Implementors
    /\ "DowncastTrait" \in Listed("Window")
    /\ registry["Downcastable"] = <<"Downcasted", "Downcasted2">>
    /\ last.op = "downcast_trait" /\ last.obj = "tst" /\ last.cap = "Downcasted2"
    /\ val["tst"] = 1
    /\ last.ret # None
    /\ MethodCall(last.ret[1]) = {[fn |-> <<"Downcastable", "Downcasted2">>, out |-> 457]}

\* C2: a query of either kind for a capability that is not in the
\* implementor's list returns None.
SoundMiss ==
    (Queried /\ last.cap \notin Listed(LastImpl)) => last.ret = None

SoundMissWitness ==
    /\ last.op = "downcast_trait" /\ last.obj = "win" /\ last.cap = "Widget"
    /\ registry["Window"] = <<"Container">>
    /\ last.ret = None

\* The other query macro applied to the object and target of the last query.
OtherQuery ==
    IF last.op = "downcast_trait"
    THEN downcast_trait_mut(last.cap, to_downcast_trait_mut(LastImpl, last.obj))
    ELSE downcast_trait(last.cap, to_downcast_trait(LastImpl, last.obj))

\* C3: the mutable query returns Some exactly when the read-only query on
\* the same object and target does, and then both views have the same
\* vtable and data pointer and give the same method results.
MutabilityParity ==
    Queried =>
        /\ (last.ret = None) <=> (OtherQuery.ret = None)
        /\ last.ret # None =>
            /\ OtherQuery.ret[1].vtable = last.ret[1].vtable
            /\ OtherQuery.ret[1].data = last.ret[1].data
            /\ MethodCall(OtherQuery.ret[1]) = MethodCall(last.ret[1])

MutabilityParityWitness ==
    /\ last.op = "downcast_trait" /\ last.ret # None
    /\ last.entry = 1 /\ Len(registry[LastImpl]) = 2
    /\ OtherQuery.ret # None

\* A query of kind m for C on object o whose state is given by `store`:
\* absent, or the view returned and what its method gives.
Outcome(o, C, m, store) ==
    LET r == IF m THEN downcast_trait_mut(C, to_downcast_trait_mut(TypeOfObj(o), o))
                  ELSE downcast_trait(C, to_downcast_trait(TypeOfObj(o), o))
    IN IF r.ret = None THEN <<>> ELSE <<r.ret[1], MethodCallOn(r.ret[1], store)>>

\* C4: a query leaves the object in the state it had when the query
\* started; the same query made again returns what it returned; and every
\* query on the object (any target, either kind) gives after it what it
\* would have given before it.
QueryFrame ==
    Queried =>
        /\ val[last.obj] = last.before
        /\ Outcome(last.obj, last.cap, last.op = "downcast_trait_mut", val)
              = IF last.ret = None THEN <<>>
                ELSE <<last.ret[1],
                       MethodCallOn(last.ret[1], [val EXCEPT ![last.obj] = last.before])>>
        /\ \A C \in Capabilities, m \in BOOLEAN :
              Outcome(last.obj, C, m, val)
                = Outcome(last.obj, C, m, [val EXCEPT ![last.obj] = last.before])

QueryFrameWitness ==
    /\ last.op = "downcast_trait_mut" /\ last.ret # None
    /\ val[last.obj] = 1
    /\ last.before = 1
    /\ Outcome(last.obj, last.cap, FALSE, val) # <<>>
    /\ Outcome(last.obj, "Widget", TRUE, val) = <<>>

\* C7: no implementor is emitted from an empty capability list; the empty
\* invocation ends in a compile error.
EmptyListRejected ==
    \A I \in Implementors :
        /\ I \in emitted => Len(registry[I]) >= 1
        /\ diag[I] = "no_rules_expected" => I \notin emitted

EmptyListRejectedWitness ==
    /\ diag["Downcastable"] = "no_rules_expected"
    /\ "Downcastable" \notin emitted
    /\ "Window" \in emitted

\* C8: a view a query returns carries the vtable of the requested
\* capability for the object's own type, is typed as the requested
\* capability, and is mutable exactly when the mutable query made it.
CarrierIdentity ==
    (Queried /\ last.ret # None) =>
        /\ TypeId_of(last.ret[1].vtable[2]) = TypeId_of(last.cap)
        /\ last.ret[1].vtable[1] = LastImpl
        /\ last.ret[1].ty = last.cap
        /\ last.ret[1].mut <=> (last.op = "downcast_trait_mut")

CarrierIdentityWitness ==
    /\ last.op = "downcast_trait" /\ last.ret # None
    /\ last.entry = 2
    /\ last.ret[1].vtable = <<"Window", "Container">>
    /\ ~last.ret[1].mut

\* The list without the later repetitions of a name.
RECURSIVE Dedup(_)
Dedup(list) ==
    IF list = <<>> THEN <<>>
    ELSE LET front == Dedup(SubSeq(list, 1, Len(list) - 1))
             x == list[Len(list)]
         IN IF x \in Range(front) THEN front ELSE Append(front, x)

FirstIndex(list, C) == CHOOSE i \in DOMAIN list :
    list[i] = C /\ \A j \in 1..(i - 1) : list[j] # C

LookupOn(list) ==
    IF last.op = "downcast_trait"
    THEN convert_to_trait_chain(list, 1, LastImpl, last.obj, TypeId_of(last.cap))
    ELSE convert_to_trait_mut_chain(list, 1, LastImpl, last.obj, TypeId_of(last.cap))

\* C9: the lookup takes the branch of the first listed name equal to the
\* request after testing exactly the names up to it, tests all k names on a
\* miss, never more than k, and returns what the lookup over the list
\* without its later duplicates returns.
FirstMatch ==
    Queried =>
        LET list == registry[LastImpl]
        IN /\ last.tests <= Len(list)
           /\ last.cap \in Range(list) =>
                /\ last.entry = FirstIndex(list, last.cap)
                /\ last.tests = FirstIndex(list, last.cap)
                /\ last.ret # None
                /\ last.ret[1].vtable = <<LastImpl, list[last.entry]>>
           /\ last.cap \notin Range(list) =>
                /\ last.entry = 0 /\ last.tests = Len(list)
           /\ LookupOn(Dedup(list)).ret = LookupOn(list).ret
           /\ (LookupOn(list).ret = None) <=> (last.ret = None)

FirstMatchWitness ==
    /\ last.op = "downcast_trait"
    /\ registry["Downcastable"] = <<"Downcasted2", "Downcasted2">>
    /\ last.obj = "tst" /\ last.cap = "Downcasted2"
    /\ last.entry = 1 /\ last.tests = 1

HasDuplicate(list) == \E i, j \in DOMAIN list : i < j /\ list[i] = list[j]

\* C10 as amended: a list that names a capability twice is compiled with no
\* diagnostic at all.
DuplicateSilent ==
    \A I \in emitted : HasDuplicate(registry[I]) => diag[I] = "none"

DuplicateSilentWitness ==
    /\ "Window" \in emitted
    /\ registry["Window"] = <<"Container", "Container">>
    /\ diag["Window"] = "none"

\* C10 as stated: a list that names a capability twice gets a diagnostic
\* about the duplicate.
DuplicateDiagnosed ==
    \A I \in emitted : HasDuplicate(registry[I]) => diag[I] = "duplicate"

\* a is a view that d was reborrowed from, directly or through other views.
RECURSIVE DerivedWithin(_, _, _)
DerivedWithin(a, d, n) ==
    /\ n > 0
    /\ Live(d)
    /\ View(d).parent # 0
    /\ \/ View(d).parent = a
       \/ DerivedWithin(a, View(d).parent, n - 1)

Derived(a, d) == DerivedWithin(a, d, MaxViews)

MutableVia == {"downcast_trait_mut", "to_downcast_trait_mut"}

\* C5: every view the client holds points at the object it was asked of,
\* through the vtable of that object's type, and is mutable exactly when a
\* mutable operation returned it; the accessors return a DowncastTrait view;
\* a method called through any view runs on the object's current state; and
\* a value stored through a mutable query's view is the object's state.
SameStorage ==
    /\ \A i \in LiveViews :
        /\ View(i).h.data = View(i).obj
        /\ View(i).h.vtable[1] = TypeOfObj(View(i).obj)
        /\ View(i).h.mut <=> (View(i).via \in MutableVia)
        /\ View(i).via \in {"to_downcast_trait", "to_downcast_trait_mut"}
              => View(i).h.ty = "DowncastTrait"
        /\ MethodCall(View(i).h)
              = {Method(TypeOfObj(View(i).obj), View(i).h.ty, val[View(i).obj])}
    /\ \A o \in Objects : wrote[o] # <<>> => val[o] = wrote[o][1]

SameStorageWitness ==
    /\ wrote["tst"] = <<1>>
    /\ wrote["win"] = <<>>
    /\ val["win"] = 0
    /\ \E i \in LiveViews :
        /\ View(i).via = "downcast_trait" /\ View(i).obj = "tst"
        /\ MethodCall(View(i).h) = {[fn |-> <<"Downcastable", "Downcasted2">>, out |-> 457]}
    /\ \E i \in LiveViews :
        /\ View(i).via = "to_downcast_trait_mut" /\ View(i).obj = "win"

QueryVia == {"downcast_trait", "downcast_trait_mut"}

\* C6 as amended: a view is reborrowed only from a live view of the same
\* object, a mutable one only from a mutable one; and of two live views of
\* one object, one of them mutable, one is derived from the other: views
\* that are not on one chain of reborrows are all read-only.
BorrowDiscipline ==
    /\ \A i \in LiveViews :
        View(i).parent # 0 =>
            /\ View(i).parent \in LiveViews
            /\ View(View(i).parent).obj = View(i).obj
            /\ View(i).h.mut => View(View(i).parent).h.mut
    /\ \A i, j \in LiveViews :
        (i # j /\ View(i).obj = View(j).obj /\ View(i).h.mut)
            => (Derived(i, j) \/ Derived(j, i))

BorrowDisciplineWitness ==
    \E i, j \in LiveViews :
        /\ View(i).via = "downcast_trait_mut" /\ View(i).obj = "win"
        /\ View(i).parent = 0
        /\ View(j).via = "downcast_trait" /\ View(j).parent = i
        /\ View(j).h.ty = "Container"

\* C6 as stated: while a view a mutable query returned is live, no view
\* returned by another query on the same object is live.
ExclusiveMutableView ==
    \A i, j \in LiveViews :
        (i # j /\ View(i).obj = View(j).obj /\ View(i).via = "downcast_trait_mut")
            => View(j).via \notin QueryVia

====
